---------------------------- MODULE Spec2Model ----------------------------
(***************************************************************************)
(* Model of the photovoltaic sizing pipeline of pv_calculator.py:          *)
(* calcular_potencia_pico_necessaria, carregar_dados_equipamentos,         *)
(* selecionar_inversores, calcular_arranjos_possiveis,                     *)
(* selecionar_arranjo_paineis, dimensionar_sistema, calcular_energia_gerada*)
(* and realizar_dimensionamento_completo.                                  *)
(*                                                                         *)
(* Numbers.  The program computes in binary floating point.  Here every    *)
(* catalog rating, consumption and yield is an integer and every derived   *)
(* quantity is an exact fraction [n |-> numerator, d |-> denominator] in   *)
(* lowest terms, d > 0; the factors 1.2, 0.90 and 1.10 are 6/5, 9/10 and 11/10.          *)
(* Comparisons are done by cross-multiplication, floors and ceilings by    *)
(* integer division.                                                       *)
(*                                                                         *)
(* Optional values.  Python's None is the empty tuple <<>> and a present   *)
(* value v is <<v>>.                                                       *)
(***************************************************************************)
EXTENDS Integers, Sequences, FiniteSets, TLC

None == <<>>
Some(v) == <<v>>

Abs(x) == IF x < 0 THEN 0 - x ELSE x
Max(a, b) == IF a >= b THEN a ELSE b
Min(a, b) == IF a <= b THEN a ELSE b

\* Exact fractions, kept in lowest terms.
RECURSIVE GCD(_, _)
GCD(a, b) == IF b = 0 THEN a ELSE GCD(b, a % b)
Frac(n, d) ==
    LET g == GCD(Abs(n), d)
    IN [n |-> n \div g, d |-> d \div g]
FLeq(a, b) == a.n * b.d <= b.n * a.d
FLt(a, b) == a.n * b.d < b.n * a.d
FEq(a, b) == a.n * b.d = b.n * a.d
\* math.ceil(n / d) for d > 0
CeilDiv(n, d) == 0 - ((0 - n) \div d)

(***************************************************************************)
(* Equipment catalog rows.  A panel row carries the columns read by        *)
(* calcular_arranjos_possiveis, an inverter row those read by              *)
(* selecionar_inversores.                                                  *)
(***************************************************************************)
Painel(modelo, fabricante, pmax, voc, isc) ==
    [modelo |-> modelo, fabricante |-> fabricante,
     potencia_maxima_nominal_pmax |-> pmax,
     tensao_circuito_aberto_voc |-> voc,
     corrente_curto_circuito_isc |-> isc]

Inversor(modelo, fabricante, pot_ca, vmax, vstart, imax, mppt) ==
    [modelo |-> modelo, fabricante |-> fabricante,
     maxima_potencia_nominal_ca |-> pot_ca,
     tensao_maxima_cc |-> vmax,
     tensao_start |-> vstart,
     corrente_maxima_entrada_por_mpp_tracker |-> imax,
     numero_mpp_trackers |-> mppt]

\* Panel models of the bounded catalog universe.  P400 is the panel of the
\* documented scenario; P000 has no rated power and must be skipped; P620
\* has a short-circuit current above some inverters' MPPT limit, and two of
\* them in series exceed what one MIC1000 supports.
PainelP400 == Painel("P400", "SolarA", 400, 40, 10)
PainelP620 == Painel("P620", "SolarB", 620, 50, 14)
PainelP000 == Painel("P000", "SolarD", 0, 40, 10)
TiposPainel == {PainelP400, PainelP620, PainelP000}

\* Inverter models of the bounded catalog universe.  INV5000 is the inverter
\* of the documented scenario; INV0 has no AC rating and must be skipped;
\* INV5000b is a second row with the same model name as INV5000, another AC
\* rating and no MPPT input current; MIC1000 is a small unit whose name
\* sorts after the others while its deviation from a target is never larger.
InvINV5000 == Inversor("INV5000", "InvA", 5000, 500, 80, 12, 2)
InvMIC1000 == Inversor("MIC1000", "InvB", 1000, 150, 60, 25, 1)
InvINV0 == Inversor("INV0", "InvD", 0, 500, 80, 12, 2)
InvINV5000b == Inversor("INV5000", "InvA", 3000, 600, 100, 0, 2)
TiposInversor == {InvINV5000, InvMIC1000, InvINV0, InvINV5000b}

\* Model names in the order pandas' groupby sorts its keys (string order).
NomesOrdenados == <<"INV0", "INV5000", "MIC1000">>
RankModelo(m) == CHOOSE k \in DOMAIN NomesOrdenados : NomesOrdenados[k] = m

(***************************************************************************)
(* selecionar_inversores                                                   *)
(***************************************************************************)
\* line 289: rows without a positive AC rating are skipped
PotCaValida(inv) == inv.maxima_potencia_nominal_ca > 0

\* line 284 and 295: n_min = max(1, ceil((potencia_pico_w / 1.2) / pot_ca))
NMin_floor(p, pot_ca) == Max(1, (5 * p.n) \div (6 * p.d * pot_ca))
NMin(p, pot_ca) == Max(1, CeilDiv(5 * p.n, 6 * p.d * pot_ca))

\* lines 297-314: one probed unit count of one inverter row
Candidato(p, inv, num) ==
    LET pot_ca == inv.maxima_potencia_nominal_ca
        \* pot_max_cc_suportada = num * pot_ca * 1.2
        suportada == Frac(6 * num * pot_ca, 5)
    IN [modelo |-> inv.modelo,
        fabricante |-> inv.fabricante,
        maxima_potencia_nominal_ca |-> pot_ca,
        tensao_maxima_cc |-> inv.tensao_maxima_cc,
        tensao_start |-> inv.tensao_start,
        corrente_maxima_entrada_por_mpp_tracker |->
            inv.corrente_maxima_entrada_por_mpp_tracker,
        numero_mpp_trackers |-> inv.numero_mpp_trackers,
        num_inversores |-> num,
        potencia_combinacao_ca |-> num * pot_ca,
        potencia_maxima_cc_suportada |-> suportada,
        \* diferenca = abs(pot_max_cc_suportada - potencia_pico_w)
        diferenca_potencia_pico |->
            Frac(Abs(suportada.n * p.d - p.n * suportada.d), suportada.d * p.d)]

\* line 296: range(n_min, n_min + 3)
CandidatosDoModelo_quatro(p, inv) ==
    LET n_min == NMin(p, inv.maxima_potencia_nominal_ca)
    IN [k \in 1..4 |-> Candidato(p, inv, n_min + k - 1)]
CandidatosDoModelo(p, inv) ==
    LET n_min == NMin(p, inv.maxima_potencia_nominal_ca)
    IN [k \in 1..3 |-> Candidato(p, inv, n_min + k - 1)]

\* lines 287-314: the list lst, in catalog order
RECURSIVE ListaCandidatos(_, _)
ListaCandidatos(p, df) ==
    IF df = <<>> THEN <<>>
    ELSE LET inv == Head(df)
         IN (IF PotCaValida(inv) THEN CandidatosDoModelo(p, inv) ELSE <<>>)
            \o ListaCandidatos(p, Tail(df))

\* line 322: groupby("modelo")[...].idxmin(): per model name, the first row
\* of least deviation
IdxMin_ultimo(lst, m) ==
    LET idxs == {k \in DOMAIN lst : lst[k].modelo = m}
    IN CHOOSE k \in idxs : \A j \in idxs : k >= j
IdxMin_maior(lst, m) ==
    LET idxs == {k \in DOMAIN lst : lst[k].modelo = m}
    IN CHOOSE k \in idxs : \A j \in idxs :
          \/ FLt(lst[j].diferenca_potencia_pico, lst[k].diferenca_potencia_pico)
          \/ /\ FEq(lst[k].diferenca_potencia_pico, lst[j].diferenca_potencia_pico)
             /\ k <= j
IdxMin(lst, m) ==
    LET idxs == {k \in DOMAIN lst : lst[k].modelo = m}
    IN CHOOSE k \in idxs : \A j \in idxs :
          \/ FLt(lst[k].diferenca_potencia_pico, lst[j].diferenca_potencia_pico)
          \/ /\ FEq(lst[k].diferenca_potencia_pico, lst[j].diferenca_potencia_pico)
             /\ k <= j

\* line 323: sort_values(by="diferenca_potencia_pico") of the rows taken in
\* group-key order; rows of equal deviation keep the group-key order
RECURSIVE OrdenarPorDiferenca_decrescente(_)
OrdenarPorDiferenca_decrescente(rows) ==
    IF rows = {} THEN <<>>
    ELSE LET primeiro == CHOOSE r \in rows : \A s \in rows :
                 \/ FLt(s.diferenca_potencia_pico, r.diferenca_potencia_pico)
                 \/ /\ FEq(r.diferenca_potencia_pico, s.diferenca_potencia_pico)
                    /\ RankModelo(r.modelo) <= RankModelo(s.modelo)
         IN <<primeiro>> \o OrdenarPorDiferenca_decrescente(rows \ {primeiro})
RECURSIVE OrdenarPorDiferenca(_)
OrdenarPorDiferenca(rows) ==
    IF rows = {} THEN <<>>
    ELSE LET primeiro == CHOOSE r \in rows : \A s \in rows :
                 \/ FLt(r.diferenca_potencia_pico, s.diferenca_potencia_pico)
                 \/ /\ FEq(r.diferenca_potencia_pico, s.diferenca_potencia_pico)
                    /\ RankModelo(r.modelo) <= RankModelo(s.modelo)
         IN <<primeiro>> \o OrdenarPorDiferenca(rows \ {primeiro})

\* lines 275-326.  potencia_pico_w is Some(fraction) or None.
selecionar_inversores_semGrupos(potencia_pico_w, df_inv) ==
    IF potencia_pico_w = None \/ df_inv = <<>> THEN <<>>
    ELSE IF potencia_pico_w[1].n <= 0 THEN <<>>
    ELSE LET lista == ListaCandidatos(potencia_pico_w[1], df_inv)
         IN OrdenarPorDiferenca({lista[k] : k \in DOMAIN lista})
selecionar_inversores(potencia_pico_w, df_inv) ==
    IF potencia_pico_w = None \/ df_inv = <<>> THEN <<>>
    ELSE IF potencia_pico_w[1].n <= 0 THEN <<>>
    ELSE LET lst == ListaCandidatos(potencia_pico_w[1], df_inv)
             modelos == {lst[k].modelo : k \in DOMAIN lst}
         IN OrdenarPorDiferenca({lst[IdxMin(lst, m)] : m \in modelos})

(***************************************************************************)
(* calcular_arranjos_possiveis                                             *)
(***************************************************************************)
\* line 345: rows without positive Voc, Isc and rated power are skipped
PainelValido(m) ==
    /\ m.tensao_circuito_aberto_voc > 0
    /\ m.corrente_curto_circuito_isc > 0
    /\ m.potencia_maxima_nominal_pmax > 0

\* line 352: max_n_serie = max(1, int(tensao_max_cc // voc))
MaxNSerie_menosUm(tensao_max_cc, voc) == Max(1, (tensao_max_cc \div voc) - 1)
MaxNSerie(tensao_max_cc, voc) == Max(1, tensao_max_cc \div voc)

\* line 355: tensao_start <= v_total <= tensao_max_cc
JanelaTensao(v_total, tensao_start, tensao_max_cc) ==
    tensao_start <= v_total /\ v_total <= tensao_max_cc

\* lines 341-363: the rows of one panel model, by ascending series count
SeriesDoPainel(m, tensao_max_cc, tensao_start) ==
    LET voc == m.tensao_circuito_aberto_voc
        linha(n) == [modelo_painel |-> m.modelo,
                     fabricante_painel |-> m.fabricante,
                     potencia_modulo |-> m.potencia_maxima_nominal_pmax,
                     num_modulos_serie |-> n,
                     tensao_total_voc |-> n * voc,
                     corrente_isc |-> m.corrente_curto_circuito_isc]
        F[n \in 0..MaxNSerie(tensao_max_cc, voc)] ==
            IF n = 0 THEN <<>>
            ELSE F[n - 1] \o
                 (IF JanelaTensao(n * voc, tensao_start, tensao_max_cc)
                  THEN <<linha(n)>> ELSE <<>>)
    IN F[MaxNSerie(tensao_max_cc, voc)]

\* lines 329-364
RECURSIVE calcular_arranjos_possiveis(_, _, _)
calcular_arranjos_possiveis(df_pain, tensao_max_cc, tensao_start) ==
    IF df_pain = <<>> THEN <<>>
    ELSE LET m == Head(df_pain)
         IN (IF PainelValido(m)
             THEN SeriesDoPainel(m, tensao_max_cc, tensao_start) ELSE <<>>)
            \o calcular_arranjos_possiveis(Tail(df_pain), tensao_max_cc,
                                           tensao_start)

(***************************************************************************)
(* selecionar_arranjo_paineis                                              *)
(***************************************************************************)
\* line 383: alvo_mppt_w = potencia_por_inversor_w / num_mppt
AlvoMppt(potencia_por_inversor_w, num_mppt) ==
    Frac(potencia_por_inversor_w.n, potencia_por_inversor_w.d * num_mppt)

\* lines 384-385 and 414: pmin <= p_tot <= pmax with pmin = alvo * 0.90 and
\* pmax = alvo * 1.10
FaixaPotencia(p_tot, alvo) ==
    /\ 9 * alvo.n <= 10 * p_tot * alvo.d
    /\ 10 * p_tot * alvo.d <= 11 * alvo.n

\* line 414: i_tot <= i_max
LimiteCorrente_semLimite(i_tot, i_max) == TRUE
LimiteCorrente(i_tot, i_max) == i_tot <= i_max

\* lines 403-407: the number of parallel strings probed
MaxParalelos(a, alvo, i_max) ==
    LET p_serie == a.num_modulos_serie * a.potencia_modulo
        max_paralelos_por_corrente == Max(1, i_max \div a.corrente_isc)
        \* int(pmax // p_serie), pmax = alvo * 1.10
        max_paralelos_por_pot == Max(1, (11 * alvo.n) \div (10 * alvo.d * p_serie))
    IN Max(1, Min(max_paralelos_por_corrente, max_paralelos_por_pot))

\* lines 418-427: the arrangement of k parallel strings of row a
Arranjo(a, k, alvo) ==
    LET p_tot == a.num_modulos_serie * a.potencia_modulo * k
    IN [modelo_painel |-> a.modelo_painel,
        fabricante_painel |-> a.fabricante_painel,
        potencia_modulo |-> a.potencia_modulo,
        num_modulos_serie |-> a.num_modulos_serie,
        num_conjuntos_paralelo |-> k,
        potencia_total_arranjo_mppt |-> p_tot,
        corrente_total_isc |-> a.corrente_isc * k,
        \* diff = abs(p_tot - alvo_mppt_w)
        diferenca_potencia_mppt |-> Frac(Abs(p_tot * alvo.d - alvo.n), alvo.d)]

\* lines 393-429: best_local of one row, None when the row gives no
\* candidate; the first k of least deviation wins (diff < best_diff)
MelhorLocal(a, alvo, corrente_max_mppt) ==
    IF corrente_max_mppt <= 0 THEN None
    ELSE LET ks == {k \in 1..MaxParalelos(a, alvo, corrente_max_mppt) :
                      /\ FaixaPotencia(a.num_modulos_serie * a.potencia_modulo * k,
                                       alvo)
                      /\ LimiteCorrente(a.corrente_isc * k, corrente_max_mppt)}
         IN IF ks = {} THEN None
            ELSE LET dif(k) == Arranjo(a, k, alvo).diferenca_potencia_mppt
                     melhor == CHOOSE k \in ks : \A j \in ks :
                                 FLt(dif(k), dif(j)) \/ (FEq(dif(k), dif(j)) /\ k <= j)
                 IN Some(Arranjo(a, melhor, alvo))

\* lines 391-429: candidatos, in the order of the rows
RECURSIVE Candidatos(_, _, _)
Candidatos(poss, alvo, corrente_max_mppt) ==
    IF poss = <<>> THEN <<>>
    ELSE MelhorLocal(Head(poss), alvo, corrente_max_mppt)
         \o Candidatos(Tail(poss), alvo, corrente_max_mppt)

\* line 435: df.loc[df["diferenca_potencia_mppt"].idxmin()]: the first
\* candidate of least deviation
MelhorGlobal(candidatos) ==
    candidatos[CHOOSE k \in DOMAIN candidatos : \A j \in DOMAIN candidatos :
        \/ FLt(candidatos[k].diferenca_potencia_mppt,
               candidatos[j].diferenca_potencia_mppt)
        \/ /\ FEq(candidatos[k].diferenca_potencia_mppt,
                  candidatos[j].diferenca_potencia_mppt)
           /\ k <= j]

\* lines 367-435.  potencia_por_inversor_w is a fraction; the result is
\* None or Some(arrangement).
selecionar_arranjo_paineis(potencia_por_inversor_w, df_pain, tensao_max_cc, tensao_start, corrente_max_mppt, num_mppt) ==
    IF ~(potencia_por_inversor_w.n > 0 /\ num_mppt > 0) THEN None
    ELSE LET alvo == AlvoMppt(potencia_por_inversor_w, num_mppt)
             poss == calcular_arranjos_possiveis(df_pain, tensao_max_cc,
                                                 tensao_start)
             candidatos == Candidatos(poss, alvo, corrente_max_mppt)
         IN IF candidatos = <<>> THEN None
            ELSE Some(MelhorGlobal(candidatos))

(***************************************************************************)
(* dimensionar_sistema                                                     *)
(***************************************************************************)
\* line 449: pot_por_inversor_w = potencia_pico_w / num_inversores
PotPorInversor_total(potencia_pico_w, c) == potencia_pico_w
PotPorInversor(potencia_pico_w, c) ==
    Frac(potencia_pico_w.n, potencia_pico_w.d * c.num_inversores)

\* lines 451-458: the arrangement composed for one retained combination
ArranjoDaCombinacao(potencia_pico_w, df_pain, c) ==
    selecionar_arranjo_paineis(PotPorInversor(potencia_pico_w, c), df_pain,
                               c.tensao_maxima_cc, c.tensao_start,
                               c.corrente_maxima_entrada_por_mpp_tracker,
                               c.numero_mpp_trackers)

\* lines 463-498: the row materialized for combination c and arrangement arr
Linha_semUnidades(c, arr) ==
    LET num_mppt == c.numero_mpp_trackers
        num_inversores == c.num_inversores
    IN [inversor_modelo |-> c.modelo,
        inversor_fabricante |-> c.fabricante,
        inversor_potencia_ca_nominal |-> c.maxima_potencia_nominal_ca,
        inversor_num_unidades |-> num_inversores,
        inversor_num_mppt |-> num_mppt,
        painel_modelo |-> arr.modelo_painel,
        painel_fabricante |-> arr.fabricante_painel,
        painel_potencia |-> arr.potencia_modulo,
        arranjo_modulos_serie |-> arr.num_modulos_serie,
        arranjo_conjuntos_paralelo_por_mppt |-> arr.num_conjuntos_paralelo,
        arranjo_potencia_total_mppt_w |-> arr.potencia_total_arranjo_mppt,
        sistema_potencia_total_w |->
            arr.potencia_total_arranjo_mppt * num_mppt,
        sistema_num_total_paineis |->
            arr.num_modulos_serie * arr.num_conjuntos_paralelo * num_mppt,
        potencia_pico_necessaria_kw |-> None,
        consumo_anual_kwh |-> None,
        energia_gerada_anual_kwh |-> None,
        energia_mensal_kwh_array |-> None]
Linha(c, arr) ==
    LET num_mppt == c.numero_mpp_trackers
        num_inversores == c.num_inversores
    IN [inversor_modelo |-> c.modelo,
        inversor_fabricante |-> c.fabricante,
        inversor_potencia_ca_nominal |-> c.maxima_potencia_nominal_ca,
        inversor_num_unidades |-> num_inversores,
        inversor_num_mppt |-> num_mppt,
        painel_modelo |-> arr.modelo_painel,
        painel_fabricante |-> arr.fabricante_painel,
        painel_potencia |-> arr.potencia_modulo,
        arranjo_modulos_serie |-> arr.num_modulos_serie,
        arranjo_conjuntos_paralelo_por_mppt |-> arr.num_conjuntos_paralelo,
        arranjo_potencia_total_mppt_w |-> arr.potencia_total_arranjo_mppt,
        sistema_potencia_total_w |->
            arr.potencia_total_arranjo_mppt * num_mppt * num_inversores,
        sistema_num_total_paineis |->
            arr.num_modulos_serie * arr.num_conjuntos_paralelo * num_mppt
                * num_inversores,
        potencia_pico_necessaria_kw |-> None,
        consumo_anual_kwh |-> None,
        energia_gerada_anual_kwh |-> None,
        energia_mensal_kwh_array |-> None]

(***************************************************************************)
(* The yield estimator (PVWatts) and fazer_requisicao_pvwatts              *)
(***************************************************************************)
\* A 12-element monthly series and a malformed, 11-element one.
Mensal(v) == [k \in 1..12 |-> v]
MensalCurta(v) == [k \in 1..11 |-> v]

\* One outcome of a call of fazer_requisicao_pvwatts: rede is "sem_chave"
\* when PVWATTS_API_KEY is not set (nothing is sent), else the transport
\* outcome ("ok", a raised RequestException, or a body that is not JSON);
\* vazio is a body
\* that parses to an empty object; n_errors is the length of
\* outputs.errors; ac_annual and ac_monthly are the fields of outputs,
\* None when absent.  A JSON body is taken to be an object whose outputs
\* field, when present, is an object, as the service documents it.
Resposta(rede, vazio, n_errors, ac_annual, ac_monthly) ==
    [rede |-> rede, vazio |-> vazio, n_errors |-> n_errors,
     ac_annual |-> ac_annual, ac_monthly |-> ac_monthly]

Respostas ==
    { Resposta("sem_chave", FALSE, 0, None, None),
      Resposta("timeout", FALSE, 0, None, None),
      Resposta("json_invalido", FALSE, 0, None, None),
      Resposta("ok", TRUE, 0, None, None),
      Resposta("ok", FALSE, 1, Some(1500), Some(Mensal(125))),
      Resposta("ok", FALSE, 0, None, Some(Mensal(125))),
      Resposta("ok", FALSE, 0, Some(0), Some(Mensal(0))),
      Resposta("ok", FALSE, 0, Some(0 - 10), None),
      Resposta("ok", FALSE, 0, Some(1500), Some(Mensal(125))),
      Resposta("ok", FALSE, 0, Some(1500), None),
      Resposta("ok", FALSE, 0, Some(1200), Some(MensalCurta(100))) }

\* lines 68-95: the JSON body, or None
fazer_requisicao_semErros(r) ==
    IF r.rede # "ok" THEN None ELSE Some(r)
fazer_requisicao_pvwatts(r) ==
    IF r.rede = "sem_chave" THEN None
    ELSE IF r.rede # "ok" THEN None
    ELSE IF r.n_errors > 0 THEN None
    ELSE Some(r)

\* lines 150 and 196: "if not data" (None or an empty body)
SemDados(data) == data = None \/ data[1].vazio

\* lines 98-110
extrair_ac_monthly(data) ==
    IF data[1].ac_monthly # None /\ Len(data[1].ac_monthly[1]) = 12
    THEN data[1].ac_monthly ELSE None

(***************************************************************************)
(* calcular_potencia_pico_necessaria                                       *)
(***************************************************************************)
\* line 131: consumo_medio_mensal_kwh is None or consumo_medio_mensal_kwh <= 0
ConsumoInvalido_soNegativo(c) == c = None \/ c[1] < 0
ConsumoInvalido(c) == c = None \/ c[1] <= 0

\* line 133: not (_is_number(latitude) and _is_number(longitude))
CoordenadasInvalidas(l) == l.lat = None \/ l.lon = None

\* line 159: not ac_annual or ac_annual <= 0
RendimentoInvalido(ac_annual) == ac_annual = None \/ ac_annual[1] <= 0

\* lines 138-147 and 185-194: the request parameters
Params(capacidade, l) ==
    [system_capacity |-> capacidade, module_type |-> 0, losses |-> 14,
     array_type |-> 1, tilt |-> l.tilt, azimuth |-> l.azimuth,
     lat |-> l.lat[1], lon |-> l.lon[1]]

\* lines 136-165: the triple returned once the inputs are accepted and the
\* estimator answered r
PotenciaPico_invertida(c, r) ==
    LET data == fazer_requisicao_pvwatts(r)
        vazio == [kWp |-> None, ac_monthly |-> None]
    IN IF SemDados(data) THEN vazio
       ELSE IF RendimentoInvalido(data[1].ac_annual) THEN vazio
       ELSE [kWp |-> Some(Frac(data[1].ac_annual[1], c[1] * 12)),
             ac_monthly |-> extrair_ac_monthly(data)]
PotenciaPico(c, r) ==
    LET data == fazer_requisicao_pvwatts(r)
        vazio == [kWp |-> None, ac_monthly |-> None]
    IN IF SemDados(data) THEN vazio
       ELSE IF RendimentoInvalido(data[1].ac_annual) THEN vazio
       ELSE [kWp |-> Some(Frac(c[1] * 12, data[1].ac_annual[1])),
             ac_monthly |-> extrair_ac_monthly(data)]

(***************************************************************************)
(* calcular_energia_gerada                                                 *)
(***************************************************************************)
\* lines 185-194: the request parameters for capacity potencia_pico_kw
ParamsEnergia_referencia(potencia_pico_kw, l) == Params(Frac(1, 1), l)
ParamsEnergia(potencia_pico_kw, l) == Params(potencia_pico_kw, l)

\* lines 195-206: (ac_annual, ac_monthly) once the request was made
EnergiaGerada(r) ==
    LET data == fazer_requisicao_pvwatts(r)
    IN IF SemDados(data) THEN [anual |-> None, mensal |-> None]
       ELSE [anual |-> data[1].ac_annual, mensal |-> extrair_ac_monthly(data)]

(***************************************************************************)
(* realizar_dimensionamento_completo: messages and final columns           *)
(***************************************************************************)
ErroPVWatts == "Falha ao calcular a potencia de pico necessaria via PVWatts."
ErroCatalogo == "Falha ao carregar dados de paineis ou inversores."
ErroInversores == "Nenhuma combinacao de inversores valida encontrada."
ErroArranjo == "Nenhum arranjo de paineis valido encontrado."

\* line 540: potencia_pico_w = float(kWp) * 1000.0
PotenciaPicoW_semConversao(k) == k
PotenciaPicoW(k) == Frac(k.n * 1000, k.d)

\* json.dumps of a list of numbers: a string, kept as the tagged list
JsonDumps(lista) == [json |-> lista]

\* lines 563-567: the monthly series of the sized system; with no series
\* from the second call, the 1 kW series scaled by kWp
EnergiaMensal_semFallback(ac_monthly_dim, mensal_1kw, k) ==
    IF ac_monthly_dim # None
    THEN Some([j \in 1..12 |-> Frac(ac_monthly_dim[1][j], 1)])
    ELSE None
EnergiaMensal(ac_monthly_dim, mensal_1kw, k) ==
    IF ac_monthly_dim # None
    THEN Some([j \in 1..12 |-> Frac(ac_monthly_dim[1][j], 1)])
    ELSE IF mensal_1kw # None
    THEN Some([j \in 1..12 |-> Frac(mensal_1kw[1][j] * k.n, k.d)])
    ELSE None

\* lines 557-576: the columns completed on the table; the monthly series
\* goes to the first row only
Completar_soPrimeiraLinha(rows, k, c, energia_anual_kwh, energia_mensal) ==
    [j \in DOMAIN rows |->
        IF j > 1 THEN rows[j]
        ELSE [rows[j] EXCEPT
                !.potencia_pico_necessaria_kw = Some(k),
                !.consumo_anual_kwh = Some(c[1] * 12),
                !.energia_gerada_anual_kwh = energia_anual_kwh,
                !.energia_mensal_kwh_array =
                    IF energia_mensal # None
                    THEN Some(JsonDumps(energia_mensal[1])) ELSE None]]
Completar(rows, k, c, energia_anual_kwh, energia_mensal) ==
    [j \in DOMAIN rows |->
        [rows[j] EXCEPT
            !.potencia_pico_necessaria_kw = Some(k),
            !.consumo_anual_kwh = Some(c[1] * 12),
            !.energia_gerada_anual_kwh = energia_anual_kwh,
            !.energia_mensal_kwh_array =
                IF j = 1 /\ energia_mensal # None
                THEN Some(JsonDumps(energia_mensal[1])) ELSE None]]

(***************************************************************************)
(* State                                                                   *)
(***************************************************************************)
VARIABLES
    consumo,         \* consumo_medio_mensal of the request, None when missing
    local,           \* latitude, longitude, azimuth and tilt of the request
    store,           \* the equipment file: readable or not, and its two sheets
    pc,              \* position in realizar_dimensionamento_completo
    pedidos,         \* parameters of the requests sent to the estimator
    respostas,       \* outcome of each call of fazer_requisicao_pvwatts
    kWp,             \* required peak capacity, None until solved
    ac_monthly_1kw,  \* monthly series of the 1 kW call
    cargas,          \* number of catalog loads
    selecoes,        \* number of calls of selecionar_inversores
    potencia_pico_w, \* target in watts handed to dimensionar_sistema
    df_paineis,      \* loaded panel table
    df_inversores,   \* loaded inverter table
    lst,             \* candidates probed by selecionar_inversores
    comb,            \* retained inverter combinations
    i,               \* index of the combination being composed
    composicoes,     \* calls of selecionar_arranjo_paineis and their results
    resultados,      \* rows materialized so far
    df_ret,          \* returned table, None when no table is returned
    erro,            \* returned error message, None when there is none
    anterior,        \* what the first of two identical requests returned
    store_inicial,   \* the catalog store before any append
    escritores,      \* the calls of salvar_novo_painel / salvar_novo_inversor
    gravacoes        \* the appends that reported success, in saving order

vars == <<consumo, local, store, pc, pedidos, respostas, kWp, ac_monthly_1kw,
          cargas, selecoes, potencia_pico_w, df_paineis, df_inversores, lst,
          comb, i, composicoes, resultados, df_ret, erro, anterior,
          store_inicial, escritores, gravacoes>>

\* Bounds of the explored inputs: rows per catalog sheet.
MaxPaineis == 2
MaxInversores == 2

\* The sheets of at most n rows of S, no row listed twice: a row listed
\* twice gives the same candidates twice, of which idxmin keeps the first.
RECURSIVE SeqsAte(_, _)
SeqsAte(S, n) ==
    IF n = 0 THEN {<<>>}
    ELSE LET menores == SeqsAte(S, n - 1)
         IN menores \cup
            UNION {{Append(q, x) : x \in S \ {q[k] : k \in DOMAIN q}} :
                   q \in menores}

Consumos == {None, Some(0 - 50), Some(0), Some(300), Some(1000)}

Local(lat, lon, azimuth, tilt) ==
    [lat |-> lat, lon |-> lon, azimuth |-> azimuth, tilt |-> tilt]
LocalA == Local(Some(0 - 23), Some(0 - 46), 180, 23)
LocalB == Local(Some(40), Some(0 - 3), 0, 40)
LocalSemLatitude == Local(None, Some(0 - 46), 180, 23)

\* The requests explored: every consumption at one location, and one
\* consumption at another location and at a location without latitude.
Requisicoes ==
    {[consumo |-> c, local |-> LocalA] : c \in Consumos} \cup
    {[consumo |-> Some(300), local |-> l] : l \in {LocalB, LocalSemLatitude}}

Stores ==
    {[legivel |-> FALSE, paineis |-> <<>>, inversores |-> <<>>]} \cup
    {[legivel |-> TRUE, paineis |-> ps, inversores |-> is] :
        ps \in SeqsAte(TiposPainel, MaxPaineis),
        is \in SeqsAte(TiposInversor, MaxInversores)}

Init ==
    /\ \E q \in Requisicoes : consumo = q.consumo /\ local = q.local
    /\ store \in Stores
    /\ pc = "inicio"
    /\ pedidos = <<>>
    /\ respostas = <<>>
    /\ kWp = None
    /\ ac_monthly_1kw = None
    /\ cargas = 0
    /\ selecoes = 0
    /\ potencia_pico_w = None
    /\ df_paineis = <<>>
    /\ df_inversores = <<>>
    /\ lst = <<>>
    /\ comb = <<>>
    /\ i = 0
    /\ composicoes = <<>>
    /\ resultados = <<>>
    /\ df_ret = None
    /\ erro = None
    /\ anterior = None
    /\ store_inicial = store
    /\ escritores = <<>>
    /\ gravacoes = <<>>

\* The outcomes the estimator can give to the k-th call of a request: any
\* of Respostas, and in the second of two identical requests the outcome
\* it gave to the k-th call of the first (the estimator is deterministic
\* for fixed inputs).
RespostasDaChamada(k) ==
    IF anterior # None /\ k <= Len(anterior[1].respostas)
    THEN {anterior[1].respostas[k]} ELSE Respostas

\* return None, <message>
Falhar_comTabela(msg) ==
    /\ pc' = "fim"
    /\ df_ret' = Some(resultados)
    /\ erro' = Some(msg)
Falhar(msg) ==
    /\ pc' = "fim"
    /\ df_ret' = None
    /\ erro' = Some(msg)

(***************************************************************************)
(* Steps of realizar_dimensionamento_completo                              *)
(***************************************************************************)
\* line 531: "if not kWp" (None or zero)
SemPotencia_soZero(k) == k # None /\ k[1].n = 0
SemPotencia(k) == k = None \/ k[1].n = 0

\* lines 525-532: calcular_potencia_pico_necessaria and the test of kWp
CalcularPotenciaPico ==
    /\ pc = "inicio"
    /\ UNCHANGED <<lst, store_inicial, escritores, gravacoes>>
    /\ UNCHANGED <<consumo, local, store, cargas, selecoes, potencia_pico_w,
                   df_paineis, df_inversores, comb, i, composicoes, resultados,
                   anterior>>
    /\ IF ConsumoInvalido(consumo) \/ CoordenadasInvalidas(local)
       THEN /\ Falhar(ErroPVWatts)
            /\ kWp' = None
            /\ ac_monthly_1kw' = None
            /\ UNCHANGED <<pedidos, respostas>>
       ELSE \E r \in RespostasDaChamada(1) :
            LET res == PotenciaPico(consumo, r)
            IN /\ pedidos' = IF r.rede # "sem_chave"
                             THEN Append(pedidos, Params(Frac(1, 1), local))
                             ELSE pedidos
               /\ respostas' = Append(respostas, r)
               /\ kWp' = res.kWp
               /\ ac_monthly_1kw' = res.ac_monthly
               /\ IF SemPotencia(res.kWp)
                  THEN Falhar(ErroPVWatts)
                  ELSE /\ pc' = "carregar"
                       /\ UNCHANGED <<df_ret, erro>>

\* lines 212-224: both sheets, or two empty tables when the file cannot be read
carregar_dados_equipamentos(st) ==
    IF st.legivel THEN [paineis |-> st.paineis, inversores |-> st.inversores]
    ELSE [paineis |-> <<>>, inversores |-> <<>>]

\* line 536: df_paineis.empty or df_inversores.empty
CatalogoVazio_soPaineis(pa, inv) == pa = <<>>
CatalogoVazio(pa, inv) == pa = <<>> \/ inv = <<>>

\* lines 535-537
CarregarDados ==
    /\ pc = "carregar"
    /\ UNCHANGED <<lst, store_inicial, escritores, gravacoes>>
    /\ LET dados == carregar_dados_equipamentos(store)
       IN /\ df_paineis' = dados.paineis
          /\ df_inversores' = dados.inversores
          /\ cargas' = cargas + 1
          /\ IF CatalogoVazio(dados.paineis, dados.inversores)
             THEN Falhar(ErroCatalogo)
             ELSE /\ pc' = "selecionar"
                  /\ UNCHANGED <<df_ret, erro>>
    /\ UNCHANGED <<consumo, local, store, pedidos, respostas, kWp,
                   ac_monthly_1kw, selecoes, potencia_pico_w, comb, i,
                   composicoes, resultados, anterior>>

\* line 443: comb is None or comb.empty
CombVazia_nunca(c) == FALSE
CombVazia(c) == c = <<>>

\* line 446: resultados = []
ResultadosIniciais_mantidos(res) == res
ResultadosIniciais(res) == <<>>

\* lines 287-290: the inverter table after selecionar_inversores; a row with
\* a non-positive rating is passed over by "continue", the table is only read
InversoresAposSelecao_filtrados(df_inv) == SelectSeq(df_inv, PotCaValida)
InversoresAposSelecao(df_inv) == df_inv

\* lines 340-346 and 387-392: the panel table after selecionar_arranjo_paineis
\* and calcular_arranjos_possiveis; an invalid panel is passed over by
\* "continue", the table is only read
PaineisAposArranjo_filtrados(df_p) == SelectSeq(df_p, PainelValido)
PaineisAposArranjo(df_p) == df_p

\* lines 540-541 and 442-446: selecionar_inversores, the test of comb and
\* the empty list of rows
SelecionarInversores ==
    /\ pc = "selecionar"
    /\ potencia_pico_w' = Some(PotenciaPicoW(kWp[1]))
    /\ lst' = ListaCandidatos(potencia_pico_w'[1], df_inversores)
    /\ LET c == selecionar_inversores(potencia_pico_w', df_inversores)
       IN /\ comb' = c
          /\ selecoes' = selecoes + 1
          /\ resultados' = ResultadosIniciais(resultados)
          /\ IF CombVazia(c)
             THEN /\ Falhar(ErroInversores)
                  /\ i' = i
             ELSE /\ pc' = "arranjo"
                  /\ i' = 1
                  /\ UNCHANGED <<df_ret, erro>>
    /\ df_inversores' = InversoresAposSelecao(df_inversores)
    /\ UNCHANGED <<store_inicial, escritores, gravacoes>>
    /\ UNCHANGED <<consumo, local, store, pedidos, respostas, kWp,
                   ac_monthly_1kw, cargas, df_paineis,
                   composicoes, anterior>>

\* lines 459-498: "if not arr: continue", else the row is appended
Materializar_reinicia(res, c, arr) ==
    IF arr = None THEN <<>> ELSE Append(res, Linha(c, arr[1]))
Materializar(res, c, arr) ==
    IF arr = None THEN res ELSE Append(res, Linha(c, arr[1]))

\* line 500: not resultados
SemResultados_nunca(res) == FALSE
SemResultados(res) == res = <<>>

\* lines 447-498: one pass of the loop over comb; after the last pass,
\* lines 500-503 and 542-546
ComporArranjo ==
    /\ pc = "arranjo"
    /\ UNCHANGED <<lst, store_inicial, escritores, gravacoes>>
    /\ i <= Len(comb)
    /\ LET c == comb[i]
           arr == ArranjoDaCombinacao(potencia_pico_w[1], df_paineis, c)
           res == Materializar(resultados, c, arr)
       IN /\ composicoes' = Append(composicoes, [c |-> c, arr |-> arr])
          /\ resultados' = res
          /\ i' = i + 1
          /\ IF i < Len(comb)
             THEN UNCHANGED <<pc, df_ret, erro>>
             ELSE IF SemResultados(res)
             THEN Falhar(ErroArranjo)
             ELSE /\ pc' = "energia"
                  /\ UNCHANGED <<df_ret, erro>>
    /\ df_paineis' = PaineisAposArranjo(df_paineis)
    /\ UNCHANGED <<consumo, local, store, pedidos, respostas, kWp,
                   ac_monthly_1kw, cargas, selecoes, potencia_pico_w,
                   df_inversores, comb, anterior>>

\* lines 549-578: calcular_energia_gerada at the solved capacity, the
\* completed columns and the return
CalcularEnergiaGerada ==
    /\ pc = "energia"
    /\ UNCHANGED <<lst, store_inicial, escritores, gravacoes>>
    /\ \E r \in RespostasDaChamada(2) :
        LET e == EnergiaGerada(r)
            mensal == EnergiaMensal(e.mensal, ac_monthly_1kw, kWp[1])
        IN /\ pedidos' = IF r.rede # "sem_chave"
                         THEN Append(pedidos, ParamsEnergia(kWp[1], local))
                         ELSE pedidos
           /\ respostas' = Append(respostas, r)
           /\ df_ret' = Some(Completar(resultados, kWp[1], consumo, e.anual, mensal))
           /\ erro' = None
           /\ pc' = "fim"
    /\ UNCHANGED <<consumo, local, store, kWp, ac_monthly_1kw,
                   cargas, selecoes, potencia_pico_w, df_paineis,
                   df_inversores, comb, i, composicoes, resultados, anterior>>

Next ==
    \/ CalcularPotenciaPico
    \/ CarregarDados
    \/ SelecionarInversores
    \/ ComporArranjo
    \/ CalcularEnergiaGerada

Spec == Init /\ [][Next]_vars

(***************************************************************************)
(* Two identical requests                                                  *)
(***************************************************************************)
\* lines 509-516: realizar_dimensionamento_completo is called a second time
\* with the arguments and the equipment file of the request that has just
\* returned.  What the first call returned is kept for comparison; the
\* logs of the request start again, and the locals of the function hold
\* what the code assigns to them.  Requests are repeated for the equipment
\* files of at most MaxPaineisRepetidos panel rows.
MaxPaineisRepetidos == 1

Repetir ==
    /\ pc = "fim"
    /\ UNCHANGED <<lst, store_inicial, escritores, gravacoes>>
    /\ anterior = None
    /\ Len(store.paineis) <= MaxPaineisRepetidos
    /\ anterior' = Some([consumo |-> consumo, kWp |-> kWp, df_ret |-> df_ret,
                         erro |-> erro, respostas |-> respostas])
    /\ pc' = "inicio"
    /\ pedidos' = <<>>
    /\ respostas' = <<>>
    /\ cargas' = 0
    /\ selecoes' = 0
    /\ composicoes' = <<>>
    /\ df_ret' = None
    /\ erro' = None
    /\ UNCHANGED <<consumo, local, store, kWp, ac_monthly_1kw,
                   potencia_pico_w, df_paineis, df_inversores, comb, i,
                   resultados>>

NextRepetido ==
    \/ Next
    \/ Repetir

SpecRepetido == Init /\ [][NextRepetido]_vars

(***************************************************************************)
(* Two peak-power computations at one location                             *)
(***************************************************************************)
\* The consumptions of the second computation.
ConsumosDoSolver ==
    Consumos \cup {Some(1), Some(299), Some(301), Some(450), Some(2000)}

\* The equipment file plays no part in calcular_potencia_pico_necessaria.
InitSolver == Init /\ ~store.legivel

\* lines 113-122: after a peak power was computed, the computation is made
\* again for another consumption at the same location and orientation, the
\* estimator answering as before.
OutroConsumo ==
    /\ pc # "inicio"
    /\ UNCHANGED <<lst, store_inicial, escritores, gravacoes>>
    /\ anterior = None
    /\ kWp # None
    /\ \E c \in ConsumosDoSolver : consumo' = c
    /\ anterior' = Some([consumo |-> consumo, kWp |-> kWp, df_ret |-> df_ret,
                         erro |-> erro, respostas |-> respostas])
    /\ pc' = "inicio"
    /\ pedidos' = <<>>
    /\ respostas' = <<>>
    /\ df_ret' = None
    /\ erro' = None
    /\ UNCHANGED <<local, store, kWp, ac_monthly_1kw, cargas, selecoes,
                   potencia_pico_w, df_paineis, df_inversores, comb, i,
                   composicoes, resultados>>

NextSolver ==
    \/ CalcularPotenciaPico
    \/ OutroConsumo

SpecSolver == InitSolver /\ [][NextSolver]_vars

(***************************************************************************)
(* Properties                                                              *)
(***************************************************************************)
Linhas(q) == {q[k] : k \in DOMAIN q}

\* The target peak power in watts, once solved.
AlvoW == PotenciaPicoW(kWp[1])

\* The per-MPPT target of the composer call made for combination c:
\* (target / unit count) / MPPT count.
AlvoPorMppt(c) == Frac(AlvoW.n, AlvoW.d * c.num_inversores * c.numero_mpp_trackers)

\* Panel row m wired as S in series and P in parallel on one MPPT of
\* combination c: inside the voltage window, under the current limit and
\* inside the +/-10% band of the per-MPPT target.
TriploValido(m, S, P, c) ==
    /\ c.tensao_start <= S * m.tensao_circuito_aberto_voc
    /\ S * m.tensao_circuito_aberto_voc <= c.tensao_maxima_cc
    /\ P * m.corrente_curto_circuito_isc
          <= c.corrente_maxima_entrada_por_mpp_tracker
    /\ LET alvo == AlvoPorMppt(c)
       IN /\ 9 * alvo.n
                <= 10 * S * P * m.potencia_maxima_nominal_pmax * alvo.d
          /\ 10 * S * P * m.potencia_maxima_nominal_pmax * alvo.d
                <= 11 * alvo.n

\* The panel rows an arrangement can have been built from.
PaineisDoArranjo(a) ==
    {m \in Linhas(df_paineis) :
        /\ m.modelo = a.modelo_painel
        /\ m.potencia_maxima_nominal_pmax = a.potencia_modulo}

\* C1: every arrangement returned by selecionar_arranjo_paineis keeps the
\* series voltage inside [tensao_start, tensao_maxima_cc], the parallel
\* current at or under the MPPT limit and the arrangement power inside
\* [0.9, 1.1] x the per-MPPT target.
C1_ArranjoRespeitaLimites ==
    \A k \in DOMAIN composicoes :
        composicoes[k].arr # None =>
            LET c == composicoes[k].c
                a == composicoes[k].arr[1]
            IN /\ a.num_modulos_serie >= 1
               /\ a.num_conjuntos_paralelo >= 1
               /\ \E m \in PaineisDoArranjo(a) :
                     /\ TriploValido(m, a.num_modulos_serie,
                                     a.num_conjuntos_paralelo, c)
                     /\ a.potencia_total_arranjo_mppt =
                            a.num_modulos_serie * a.num_conjuntos_paralelo
                                * m.potencia_maxima_nominal_pmax

\* An arrangement was returned while the catalog also holds a panel whose
\* short-circuit current alone exceeds the MPPT limit.
C1_Witness ==
    \E k \in DOMAIN composicoes :
        /\ composicoes[k].arr # None
        /\ \E m \in Linhas(df_paineis) :
              m.corrente_curto_circuito_isc
                  > composicoes[k].c.corrente_maxima_entrada_por_mpp_tracker

\* The DC power supported by combination c: N x AC rating x 1.2.
SuportadaCC(c) == Frac(6 * c.num_inversores * c.maxima_potencia_nominal_ca, 5)

\* C2 as stated: every combination returned by selecionar_inversores
\* supports a DC power inside [0.95, 1.5] x the target peak power.
C2_DentroDaFaixa ==
    \A k \in DOMAIN comb :
        /\ 95 * AlvoW.n * SuportadaCC(comb[k]).d
              <= 100 * SuportadaCC(comb[k]).n * AlvoW.d
        /\ 10 * SuportadaCC(comb[k]).n * AlvoW.d
              <= 15 * AlvoW.n * SuportadaCC(comb[k]).d

\* C2 amended: every combination returned supports at least 0.95 x the
\* target peak power; no upper bound is enforced.
C2_AcimaDoLimiteInferior ==
    \A k \in DOMAIN comb :
        95 * AlvoW.n * SuportadaCC(comb[k]).d
            <= 100 * SuportadaCC(comb[k]).n * AlvoW.d

\* A combination of several units was returned.
C2_Witness ==
    \E k \in DOMAIN comb : comb[k].num_inversores > 1

\* dimensionar_sistema has returned.
DimensionamentoConcluido == selecoes = 1 /\ pc # "arranjo"

CenarioA ==
    /\ kWp # None
    /\ AlvoW = Frac(2400, 1)
    /\ df_paineis = <<PainelP400>>
    /\ df_inversores = <<InvINV5000>>

\* C3: with a target of 2400 W, the single inverter INV5000 and the single
\* panel P400, dimensionar_sistema returns no error and exactly one option:
\* 1 unit, 3 modules in series, 1 string per MPPT, 1200 W per MPPT, 2400 W
\* and 6 panels in total.
C3_CenarioA ==
    (CenarioA /\ DimensionamentoConcluido) =>
        /\ pc = "energia" \/ (pc = "fim" /\ erro = None)
        /\ Len(resultados) = 1
        /\ resultados[1].inversor_num_unidades = 1
        /\ resultados[1].arranjo_modulos_serie = 3
        /\ resultados[1].arranjo_conjuntos_paralelo_por_mppt = 1
        /\ resultados[1].arranjo_potencia_total_mppt_w = 1200
        /\ resultados[1].sistema_potencia_total_w = 2400
        /\ resultados[1].sistema_num_total_paineis = 6

C3_Witness == CenarioA /\ pc = "energia"

\* The series counts of panel row m inside the voltage window of c.  Voc is
\* at least 1, so no count above tensao_maxima_cc is inside it.
SeriesNaJanela(m, c) ==
    {S \in 1..Max(1, c.tensao_maxima_cc) :
        /\ c.tensao_start <= S * m.tensao_circuito_aberto_voc
        /\ S * m.tensao_circuito_aberto_voc <= c.tensao_maxima_cc}

\* Every (panel row, S, P) of the loaded catalog that is valid for
\* combination c.  Isc is at least 1, so no valid P exceeds the MPPT
\* current limit.
TriplosValidos(c) ==
    {t \in UNION {[m : {m}, S : SeriesNaJanela(m, c),
                   P : 1..Max(1, c.corrente_maxima_entrada_por_mpp_tracker)] :
                  m \in Linhas(df_paineis)} :
        TriploValido(t.m, t.S, t.P, c)}

\* |S x P x Pmodule - per-MPPT target|
DesvioDoTriplo(t, c) ==
    LET alvo == AlvoPorMppt(c)
    IN Frac(Abs(t.S * t.P * t.m.potencia_maxima_nominal_pmax * alvo.d
                - alvo.n), alvo.d)

\* The composer call that has just returned: the last entry of composicoes,
\* in the states where the loop of dimensionar_sistema is running or has
\* just ended.  Every call is the last one in the state it leads to.
ComposicaoRecente ==
    IF composicoes # <<>> /\ (pc \in {"arranjo", "energia"} \/ erro = Some(ErroArranjo))
    THEN {Len(composicoes)} ELSE {}

\* C4: selecionar_arranjo_paineis returns none exactly when the catalog has
\* no valid (panel, S, P) triple, and otherwise an arrangement whose
\* deviation from the per-MPPT target is least among all valid triples.
C4_ArranjoOtimo ==
    \A k \in ComposicaoRecente :
        LET c == composicoes[k].c
            arr == composicoes[k].arr
            alvo == AlvoPorMppt(c)
            triplos == TriplosValidos(c)
        IN c.numero_mpp_trackers > 0 =>
            /\ (arr = None) <=> (triplos = {})
            /\ arr # None =>
                 LET desvio == Frac(Abs(arr[1].potencia_total_arranjo_mppt
                                           * alvo.d - alvo.n), alvo.d)
                 IN \A t \in triplos : FLeq(desvio, DesvioDoTriplo(t, c))

\* An arrangement was chosen among valid triples of different deviations.
C4_Witness ==
    \E k \in ComposicaoRecente :
        /\ composicoes[k].arr # None
        /\ \E t, u \in TriplosValidos(composicoes[k].c) :
              FLt(DesvioDoTriplo(t, composicoes[k].c),
                  DesvioDoTriplo(u, composicoes[k].c))

\* The estimator gave nothing usable to a call: it was not reached (no API
\* key, transport error, body that is not JSON), or answered with an empty
\* body or an error body.
ChamadaFalhou(r) == r.rede # "ok" \/ r.vazio \/ r.n_errors > 0

\* The request returned a table after its second estimator call failed.
CenarioD ==
    /\ pc = "fim"
    /\ Len(respostas) = 2
    /\ ChamadaFalhou(respostas[2])

\* C5 as stated: when the final yield call fails, the table is returned
\* with no error and every row has a null realized annual energy and a null
\* monthly breakdown.
C5_CamposDeEnergiaNulos ==
    CenarioD =>
        /\ erro = None
        /\ df_ret # None
        /\ \A j \in DOMAIN df_ret[1] :
              /\ df_ret[1][j].energia_gerada_anual_kwh = None
              /\ df_ret[1][j].energia_mensal_kwh_array = None

\* C5 amended: when the final yield call fails, the non-empty table is
\* returned with no error, every row has a null realized annual energy,
\* every row but the first has a null monthly breakdown, and the first row
\* has a null monthly breakdown unless the 1 kW call gave a 12-element
\* series, in which case it carries that series scaled by the required
\* peak capacity.
C5_EnergiaNulaComFallbackMensal ==
    CenarioD =>
        /\ erro = None
        /\ df_ret # None
        /\ Len(df_ret[1]) >= 1
        /\ \A j \in DOMAIN df_ret[1] :
              /\ df_ret[1][j].energia_gerada_anual_kwh = None
              /\ j > 1 => df_ret[1][j].energia_mensal_kwh_array = None
        /\ respostas[1].ac_monthly = None \/ Len(respostas[1].ac_monthly[1]) # 12
              => df_ret[1][1].energia_mensal_kwh_array = None
        /\ respostas[1].ac_monthly # None /\ Len(respostas[1].ac_monthly[1]) = 12
              => df_ret[1][1].energia_mensal_kwh_array =
                    Some([json |->
                        [j \in 1..12 |->
                            Frac(respostas[1].ac_monthly[1][j] * kWp[1].n,
                                 kWp[1].d)]])

\* The final call failed in a request whose 1 kW call gave a monthly series
\* and whose table has several rows.
C5_Witness ==
    /\ CenarioD
    /\ respostas[1].ac_monthly # None
    /\ Len(respostas[1].ac_monthly[1]) = 12
    /\ df_ret # None
    /\ Len(df_ret[1]) > 1

\* The reference (1 kW) call gave no positive annual yield.
ReferenciaFalhou ==
    /\ respostas # <<>>
    /\ \/ ChamadaFalhou(respostas[1])
       \/ respostas[1].ac_annual = None
       \/ respostas[1].ac_annual[1] <= 0

\* C6: when the reference call is not answered, answers with no data or an
\* error body, or reports a zero or negative annual yield, no peak power is
\* produced and the request ends with the estimation error and no table;
\* the catalog is not loaded and no second estimator call is made.
C6_EstimativaIndisponivel ==
    ReferenciaFalhou =>
        /\ pc = "fim"
        /\ kWp = None
        /\ erro = Some(ErroPVWatts)
        /\ df_ret = None
        /\ cargas = 0
        /\ selecoes = 0
        /\ composicoes = <<>>
        /\ Len(respostas) = 1
        /\ Len(pedidos) <= 1

\* The reference call answered with an error body that also carries a
\* positive annual yield.
C6_Witness ==
    /\ ReferenciaFalhou
    /\ respostas[1].n_errors > 0
    /\ respostas[1].ac_annual # None
    /\ respostas[1].ac_annual[1] > 0

\* C7: a request whose consumption is missing, zero or negative never
\* issues an estimator request and never produces a peak power or a table.
C7_ConsumoRejeitadoAntesDaChamada ==
    (consumo = None \/ consumo[1] <= 0) =>
        /\ pedidos = <<>>
        /\ respostas = <<>>
        /\ kWp = None
        /\ cargas = 0
        /\ df_ret = None
        /\ pc \in {"inicio", "fim"}
        /\ pc = "fim" => erro # None

\* A request with zero consumption has returned.
C7_Witness == consumo = Some(0) /\ pc = "fim" /\ erro # None

\* C8: the error returned for a non-positive consumption is not the error
\* returned when the estimator fails (ErroPVWatts, reached in C8_FalhaDoEstimador).
C8_ErrosDistintos ==
    (pc = "fim" /\ (consumo = None \/ consumo[1] <= 0)) =>
        erro # Some(ErroPVWatts)

\* The estimator failed for a valid request, which returned ErroPVWatts.
C8_FalhaDoEstimador ==
    /\ pc = "fim"
    /\ consumo # None
    /\ consumo[1] > 0
    /\ ReferenciaFalhou
    /\ erro = Some(ErroPVWatts)

\* C9: once the catalog was loaded after a solved peak power, if the file
\* is unreadable or either sheet is empty then the request has ended with
\* the catalog error and no table, the selector and the composer were not
\* run and no second estimator call was made.
C9_CatalogoIndisponivel ==
    (cargas >= 1 /\ (~store.legivel \/ store.paineis = <<>>
                        \/ store.inversores = <<>>)) =>
        /\ kWp # None
        /\ pc = "fim"
        /\ erro = Some(ErroCatalogo)
        /\ df_ret = None
        /\ selecoes = 0
        /\ composicoes = <<>>
        /\ Len(respostas) = 1

\* The catalog was loaded with panels and no inverter.
C9_Witness ==
    /\ cargas >= 1
    /\ store.legivel
    /\ store.paineis # <<>>
    /\ store.inversores = <<>>

\* C10: once the selector has run on a catalog none of whose inverter rows
\* has a positive AC rating (the only rows that yield no candidate), it has
\* returned nothing and the request has ended with the
\* no-inverter-combination error and no table, without composing any
\* arrangement or calling the estimator again.
C10_NenhumaCombinacao ==
    (selecoes >= 1 /\ \A inv \in Linhas(df_inversores) :
                         inv.maxima_potencia_nominal_ca <= 0) =>
        /\ comb = <<>>
        /\ pc = "fim"
        /\ erro = Some(ErroInversores)
        /\ df_ret = None
        /\ composicoes = <<>>
        /\ resultados = <<>>
        /\ Len(respostas) = 1

\* The selector has run on a catalog whose only inverter rows have no AC
\* rating.
C10_Witness ==
    /\ selecoes >= 1
    /\ df_inversores # <<>>
    /\ \A inv \in Linhas(df_inversores) : inv.maxima_potencia_nominal_ca <= 0

\* C11: when dimensionar_sistema has finished and the composer returned no
\* arrangement for every retained inverter combination, the request has
\* ended with the no-valid-arrangement error and no table: no row was
\* materialized and the estimator was not called again.
C11_NenhumArranjo ==
    (/\ DimensionamentoConcluido
     /\ comb # <<>>
     /\ \A k \in DOMAIN composicoes : composicoes[k].arr = None) =>
        /\ Len(composicoes) = Len(comb)
        /\ resultados = <<>>
        /\ pc = "fim"
        /\ erro = Some(ErroArranjo)
        /\ df_ret = None
        /\ Len(respostas) = 1

\* The composer returned nothing for each of several retained combinations.
C11_Witness ==
    /\ DimensionamentoConcluido
    /\ Len(comb) > 1
    /\ Len(composicoes) = Len(comb)
    /\ \A k \in DOMAIN composicoes : composicoes[k].arr = None

\* The composer calls made so far that returned an arrangement, in call
\* order.
ComArranjo == SelectSeq(composicoes, LAMBDA e : e.arr # None)

\* Row q is the option of combination c wired as arrangement a.
LinhaDe(q, c, a) ==
    /\ q.inversor_modelo = c.modelo
    /\ q.inversor_potencia_ca_nominal = c.maxima_potencia_nominal_ca
    /\ q.inversor_num_unidades = c.num_inversores
    /\ q.inversor_num_mppt = c.numero_mpp_trackers
    /\ q.painel_modelo = a.modelo_painel
    /\ q.painel_potencia = a.potencia_modulo
    /\ q.arranjo_modulos_serie = a.num_modulos_serie
    /\ q.arranjo_conjuntos_paralelo_por_mppt = a.num_conjuntos_paralelo
    /\ q.arranjo_potencia_total_mppt_w = a.potencia_total_arranjo_mppt

\* C12: the k-th composer call of dimensionar_sistema is made for the k-th
\* retained combination, the loop reaches every retained combination
\* whatever the earlier calls returned, and the rows materialized (and the
\* rows of the returned table) are exactly one per call that returned an
\* arrangement, in call order, and none for the calls that returned nothing.
C12_UmaLinhaPorArranjo ==
    /\ Len(composicoes) <= Len(comb)
    /\ \A k \in DOMAIN composicoes : composicoes[k].c = comb[k]
    /\ DimensionamentoConcluido => Len(composicoes) = Len(comb)
    /\ Len(resultados) = Len(ComArranjo)
    /\ \A j \in DOMAIN resultados :
          LinhaDe(resultados[j], ComArranjo[j].c, ComArranjo[j].arr[1])
    /\ df_ret # None =>
          /\ Len(df_ret[1]) = Len(ComArranjo)
          /\ \A j \in DOMAIN df_ret[1] :
                LinhaDe(df_ret[1][j], ComArranjo[j].c, ComArranjo[j].arr[1])

\* A table was returned although the composer found nothing for a
\* combination tried after one that got an arrangement.
C12_Witness ==
    /\ df_ret # None
    /\ \E j, k \in DOMAIN composicoes :
          /\ j < k
          /\ composicoes[j].arr # None
          /\ composicoes[k].arr = None

\* The inverter deviation of row q: |N x AC rating x 1.2 - target peak
\* power|.
DesvioDoInversor(q) ==
    Frac(Abs(6 * q.inversor_num_unidades * q.inversor_potencia_ca_nominal * AlvoW.d
             - 5 * AlvoW.n), 5 * AlvoW.d)

\* C13: in the rows materialized by dimensionar_sistema and in the returned
\* table, the inverter deviation |N x AC rating x 1.2 - target peak power|
\* never decreases from one row to the next, so the first row has the least
\* deviation of all rows.
C13_LinhasPorDesvioCrescente ==
    /\ \A j, k \in DOMAIN resultados :
          j <= k => FLeq(DesvioDoInversor(resultados[j]),
                         DesvioDoInversor(resultados[k]))
    /\ df_ret # None =>
          \A j, k \in DOMAIN df_ret[1] :
             j <= k => FLeq(DesvioDoInversor(df_ret[1][j]),
                            DesvioDoInversor(df_ret[1][k]))

\* A table of two rows of different deviations was returned whose first row
\* is of a model that comes second both in the catalog and in the order of
\* the model names.
C13_Witness ==
    /\ df_ret # None
    /\ Len(df_ret[1]) = 2
    /\ FLt(DesvioDoInversor(df_ret[1][1]), DesvioDoInversor(df_ret[1][2]))
    /\ df_ret[1][1].inversor_modelo # df_inversores[1].modelo
    /\ RankModelo(df_ret[1][1].inversor_modelo)
          > RankModelo(df_ret[1][2].inversor_modelo)

\* The request returned a table: both estimator calls were made.
TabelaRetornada == pc = "fim" /\ df_ret # None

\* The second estimator call answered with a 12-element monthly series.
SegundaChamadaComMensal ==
    /\ ~ChamadaFalhou(respostas[2])
    /\ respostas[2].ac_monthly # None
    /\ Len(respostas[2].ac_monthly[1]) = 12

\* The monthly series of the second call, as the table stores it.
MensalDaSegundaChamada ==
    Some([json |-> [j \in 1..12 |-> Frac(respostas[2].ac_monthly[1][j], 1)]])

\* Row q carries the required peak power, the annual consumption and the
\* annual energy reported by the second call (null when that call failed).
FigurasAnuais(q) ==
    /\ q.potencia_pico_necessaria_kw = Some(Frac(consumo[1] * 12, respostas[1].ac_annual[1]))
    /\ q.consumo_anual_kwh = Some(consumo[1] * 12)
    /\ q.energia_gerada_anual_kwh =
          IF ChamadaFalhou(respostas[2]) THEN None ELSE respostas[2].ac_annual

\* C14 as stated: every row of the returned table carries the required peak
\* power, the annual consumption, the realized annual energy and, when the
\* second call supplied a 12-element monthly series, that series.
C14_TodasAsLinhasCompletas ==
    TabelaRetornada =>
        \A j \in DOMAIN df_ret[1] :
            /\ FigurasAnuais(df_ret[1][j])
            /\ SegundaChamadaComMensal =>
                  df_ret[1][j].energia_mensal_kwh_array = MensalDaSegundaChamada

\* C14 amended: every row of the returned table carries the required peak
\* power, the annual consumption and the realized annual energy; the
\* monthly series supplied by the second call is carried by the first row
\* only, and every other row has a null monthly breakdown.
C14_MensalSoNaPrimeiraLinha ==
    TabelaRetornada =>
        /\ Len(df_ret[1]) >= 1
        /\ \A j \in DOMAIN df_ret[1] :
              /\ FigurasAnuais(df_ret[1][j])
              /\ j > 1 => df_ret[1][j].energia_mensal_kwh_array = None
        /\ SegundaChamadaComMensal =>
              df_ret[1][1].energia_mensal_kwh_array = MensalDaSegundaChamada

\* A table of several rows was returned after the second call supplied an
\* annual energy and a 12-element monthly series.
C14_Witness ==
    /\ TabelaRetornada
    /\ Len(df_ret[1]) > 1
    /\ SegundaChamadaComMensal
    /\ respostas[2].ac_annual # None

\* C15: once realizar_dimensionamento_completo has returned, it has
\* returned either no table and an error message, or a table of at least
\* one row and no error, whichever check failed and whatever the estimator
\* answered to each call.
C15_SemResultadosParciais ==
    pc = "fim" =>
        \/ df_ret = None /\ erro # None
        \/ df_ret # None /\ Len(df_ret[1]) >= 1 /\ erro = None

\* The request failed with the no-valid-arrangement error, or returned a
\* table although its second estimator call failed.
C15_Witness ==
    /\ pc = "fim"
    /\ \/ erro = Some(ErroArranjo) /\ Len(comb) > 1
       \/ df_ret # None /\ ChamadaFalhou(respostas[2])

DoisPicosCalculados ==
    /\ anterior # None
    /\ pc # "inicio"
    /\ anterior[1].kWp # None
    /\ kWp # None
    /\ respostas = anterior[1].respostas

\* C17: of two peak powers computed at one location from the same positive
\* yield per unit capacity, the one computed for the smaller monthly
\* consumption is not the larger.
C17_Monotonia ==
    DoisPicosCalculados =>
        /\ anterior[1].consumo[1] <= consumo[1]
              => FLeq(anterior[1].kWp[1], kWp[1])
        /\ consumo[1] <= anterior[1].consumo[1]
              => FLeq(kWp[1], anterior[1].kWp[1])

\* Peak powers were computed for 300 and then for 299 kWh per month.
C17_Witness ==
    /\ DoisPicosCalculados
    /\ anterior[1].consumo = Some(300)
    /\ consumo = Some(299)
    /\ FLt(kWp[1], anterior[1].kWp[1])

\* The reference call of the request answered with a positive annual yield.
ReferenciaComRendimento ==
    /\ respostas # <<>>
    /\ ~ChamadaFalhou(respostas[1])
    /\ respostas[1].ac_annual # None
    /\ respostas[1].ac_annual[1] > 0

\* (monthly consumption x 12) / annual yield of 1 unit of capacity, and the
\* same in watts.
CapacidadeEsperada == Frac(consumo[1] * 12, respostas[1].ac_annual[1])
AlvoEsperadoW == Frac(consumo[1] * 12 * 1000, respostas[1].ac_annual[1])

\* C18: when the estimator, asked for a capacity of 1, answered with a
\* positive annual yield, the required peak capacity is (monthly
\* consumption x 12) / that yield, and the target handed to
\* selecionar_inversores is that capacity x 1000: every combination it
\* returned has its deviation measured from that target.
C18_PotenciaDePico ==
    ReferenciaComRendimento =>
        /\ consumo[1] > 0
        /\ pedidos[1].system_capacity = Frac(1, 1)
        /\ kWp = Some(CapacidadeEsperada)
        /\ selecoes >= 1 =>
              /\ potencia_pico_w = Some(AlvoEsperadoW)
              /\ \A k \in DOMAIN comb :
                    comb[k].diferenca_potencia_pico =
                        Frac(Abs(SuportadaCC(comb[k]).n * AlvoEsperadoW.d
                                 - AlvoEsperadoW.n * SuportadaCC(comb[k]).d),
                             SuportadaCC(comb[k]).d * AlvoEsperadoW.d)

\* The selector returned combinations for a required capacity that is not
\* a whole number of kW.
C18_Witness ==
    /\ ReferenciaComRendimento
    /\ selecoes >= 1
    /\ comb # <<>>
    /\ kWp[1].d # 1

\* Row q replicates arrangement a over the MPPTs and units of combination
\* c, and a was composed for the per-MPPT share of the target: its recorded
\* deviation is measured from (target / unit count) / MPPT count and its
\* power is within 10% of that share.
Replicada(q, c, a) ==
    LET alvo == Frac(AlvoEsperadoW.n,
                     AlvoEsperadoW.d * c.num_inversores * c.numero_mpp_trackers)
    IN /\ q.inversor_num_unidades = c.num_inversores
       /\ q.inversor_num_mppt = c.numero_mpp_trackers
       /\ q.arranjo_potencia_total_mppt_w = a.potencia_total_arranjo_mppt
       /\ q.sistema_potencia_total_w =
             a.potencia_total_arranjo_mppt * c.numero_mpp_trackers
                 * c.num_inversores
       /\ q.sistema_num_total_paineis =
             a.num_modulos_serie * a.num_conjuntos_paralelo
                 * c.numero_mpp_trackers * c.num_inversores
       /\ q.arranjo_modulos_serie = a.num_modulos_serie
       /\ q.arranjo_conjuntos_paralelo_por_mppt = a.num_conjuntos_paralelo
       /\ a.diferenca_potencia_mppt =
             Frac(Abs(a.potencia_total_arranjo_mppt * alvo.d - alvo.n), alvo.d)
       /\ 9 * alvo.n <= 10 * a.potencia_total_arranjo_mppt * alvo.d
       /\ 10 * a.potencia_total_arranjo_mppt * alvo.d <= 11 * alvo.n

\* C19: every row materialized by dimensionar_sistema, and every row of the
\* returned table, has total power = per-MPPT arrangement power x MPPT
\* count x unit count and total panel count = series count x parallel count
\* x MPPT count x unit count, for the arrangement composed for the target
\* (total peak power / unit count) / MPPT count.
C19_ArranjoReplicado ==
    /\ \A j \in DOMAIN resultados :
          Replicada(resultados[j], ComArranjo[j].c, ComArranjo[j].arr[1])
    /\ df_ret # None =>
          \A j \in DOMAIN df_ret[1] :
             Replicada(df_ret[1][j], ComArranjo[j].c, ComArranjo[j].arr[1])

\* A row was materialized for several units of an inverter of several
\* MPPTs.
C19_Witness ==
    \E j \in DOMAIN resultados :
        /\ resultados[j].inversor_num_unidades > 1
        /\ resultados[j].inversor_num_mppt > 1
        /\ resultados[j].arranjo_modulos_serie > 1

\* C20: the second estimator request of a request asks for a capacity equal
\* to the solved required peak capacity, (monthly consumption x 12) / the
\* annual yield of the reference call, where the first request asked for
\* the reference capacity of 1 (the two are equal only if the solved
\* capacity is itself 1); its latitude, longitude, azimuth, tilt, module
\* type, losses and array type are those of the first request.
C20_SegundaChamadaNaCapacidadeResolvida ==
    Len(pedidos) >= 2 =>
        /\ Len(pedidos) = 2
        /\ pedidos[1].system_capacity = Frac(1, 1)
        /\ pedidos[2].system_capacity = CapacidadeEsperada
        /\ pedidos[2] = [pedidos[1] EXCEPT !.system_capacity = CapacidadeEsperada]
        /\ pedidos[2].lat = local.lat[1]
        /\ pedidos[2].lon = local.lon[1]
        /\ pedidos[2].azimuth = local.azimuth
        /\ pedidos[2].tilt = local.tilt

\* The second request was sent for a request at the second location.
C20_Witness ==
    /\ Len(pedidos) = 2
    /\ local = LocalB
    /\ pedidos[2].system_capacity # Frac(1, 1)

\* n is max(1, ceiling((target / 1.2) / AC rating)) for the target handed
\* to the selector: n is at least 1 and at least target / (1.2 x rating),
\* and n - 1 is neither.
EhNMin(n, pot_ca) ==
    /\ n >= 1
    /\ 5 * AlvoEsperadoW.n <= 6 * n * pot_ca * AlvoEsperadoW.d
    /\ n = 1 \/ 5 * AlvoEsperadoW.n > 6 * (n - 1) * pot_ca * AlvoEsperadoW.d

\* The inverter rows with a positive AC rating, in catalog order.
InversoresValidos ==
    SelectSeq(df_inversores, LAMBDA inv : inv.maxima_potencia_nominal_ca > 0)

\* |N x AC rating x 1.2 - target| of a probed or retained combination,
\* from its unit count and rating.
DesvioDaCombinacao(c) ==
    Frac(Abs(6 * c.num_inversores * c.maxima_potencia_nominal_ca * AlvoEsperadoW.d
             - 5 * AlvoEsperadoW.n), 5 * AlvoEsperadoW.d)

\* C21: in the state the selector leads to (every run of the selector ends
\* in one, before the first composer call), the candidates it probed are,
\* for each inverter row with a positive AC rating and in catalog order,
\* exactly the three unit counts N_min, N_min + 1 and N_min + 2 with N_min =
\* max(1, ceiling((target / 1.2) / AC rating)); each model name probed has
\* a retained combination; and each retained combination is a probed
\* candidate whose |N x AC rating x 1.2 - target| is least among the probed
\* candidates of its model name.
C21_ContagensSondadas ==
    (selecoes >= 1 /\ composicoes = <<>>) =>
        /\ Len(lst) = 3 * Len(InversoresValidos)
        /\ \A r \in DOMAIN InversoresValidos :
              LET inv == InversoresValidos[r]
                  n_min == lst[3 * r - 2].num_inversores
              IN /\ EhNMin(n_min, inv.maxima_potencia_nominal_ca)
                 /\ \A k \in 1..3 :
                       /\ lst[3 * r - 3 + k].modelo = inv.modelo
                       /\ lst[3 * r - 3 + k].maxima_potencia_nominal_ca
                             = inv.maxima_potencia_nominal_ca
                       /\ lst[3 * r - 3 + k].num_inversores = n_min + k - 1
        /\ \A j \in DOMAIN lst : \E k \in DOMAIN comb : comb[k].modelo = lst[j].modelo
        /\ \A k \in DOMAIN comb :
              /\ \E j \in DOMAIN lst : lst[j] = comb[k]
              /\ \A j \in DOMAIN lst :
                    lst[j].modelo = comb[k].modelo =>
                       FLeq(DesvioDaCombinacao(comb[k]), DesvioDaCombinacao(lst[j]))

\* The selector probed two rows of one model name and of different
\* ratings, one of them needing several units.
C21_Witness ==
    /\ selecoes >= 1
    /\ composicoes = <<>>
    /\ \E j, k \in DOMAIN lst :
          /\ lst[j].modelo = lst[k].modelo
          /\ lst[j].maxima_potencia_nominal_ca # lst[k].maxima_potencia_nominal_ca
          /\ lst[j].num_inversores > 3

\* C22: the combinations returned by the selector have pairwise different
\* model names, one for each model name that has a row of positive AC
\* rating in the catalog, and their deviation from the target peak power
\* never decreases along the list.
C22_UmaCombinacaoPorModelo ==
    selecoes >= 1 =>
        /\ \A j, k \in DOMAIN comb :
              j # k => comb[j].modelo # comb[k].modelo
        /\ {comb[k].modelo : k \in DOMAIN comb}
              = {InversoresValidos[k].modelo : k \in DOMAIN InversoresValidos}
        /\ \A j, k \in DOMAIN comb :
              j <= k => FLeq(DesvioDaCombinacao(comb[j]),
                             DesvioDaCombinacao(comb[k]))

\* The selector returned fewer combinations than the catalog has rows of
\* positive rating, two of which share a model name and differ in rating.
C22_Witness ==
    /\ selecoes >= 1
    /\ \E j, k \in DOMAIN InversoresValidos :
          /\ j # k
          /\ InversoresValidos[j].modelo = InversoresValidos[k].modelo
          /\ InversoresValidos[j].maxima_potencia_nominal_ca
                # InversoresValidos[k].maxima_potencia_nominal_ca
    /\ Len(comb) < Len(InversoresValidos)

\* C23: at every moment of a request, a step that has started was preceded
\* by the success of the step before it: the catalog is loaded only after
\* the reference call gave a positive yield, the selector runs only after
\* the catalog gave two non-empty tables, the composer is called only after
\* the selector returned combinations, once per combination and in their
\* order, and the second estimator call is made only after the composer
\* was called for every combination and gave at least one row; each step
\* but the composer runs at most once, no estimator call follows a failed
\* one, and the request makes at most two estimator calls.
C23_PassosEmOrdem ==
    /\ Len(respostas) <= 2
    /\ cargas <= 1
    /\ selecoes <= 1
    /\ Len(composicoes) <= Len(comb)
    /\ cargas = 1 => Len(respostas) >= 1 /\ ReferenciaComRendimento
    /\ selecoes = 1 =>
          /\ cargas = 1
          /\ df_paineis # <<>>
          /\ df_inversores # <<>>
    /\ composicoes # <<>> =>
          /\ selecoes = 1
          /\ \A k \in DOMAIN composicoes : composicoes[k].c = comb[k]
    /\ Len(respostas) = 2 =>
          /\ ReferenciaComRendimento
          /\ comb # <<>>
          /\ Len(composicoes) = Len(comb)
          /\ \E k \in DOMAIN composicoes : composicoes[k].arr # None
          /\ pc = "fim"
    /\ (Len(respostas) = 1 /\ ~ReferenciaComRendimento) => pc = "fim"
    /\ pc = "carregar" => Len(respostas) = 1 /\ cargas = 0
    /\ pc = "selecionar" => cargas = 1 /\ selecoes = 0
    /\ pc = "arranjo" => selecoes = 1 /\ Len(respostas) = 1
    /\ pc = "energia" => Len(composicoes) = Len(comb) /\ Len(respostas) = 1

\* A request made its second estimator call, which failed, after the
\* composer was called for several combinations.
C23_Witness ==
    /\ Len(respostas) = 2
    /\ ChamadaFalhou(respostas[2])
    /\ Len(composicoes) > 1
    /\ pc = "fim"

\* C24: once the catalog is loaded, the panel table and the inverter table
\* held by the request stay equal to the tables that were loaded, through
\* the selection, every composition and every way the request can end.
C24_CatalogoImutavel ==
    cargas >= 1 =>
        /\ df_paineis = carregar_dados_equipamentos(store).paineis
        /\ df_inversores = carregar_dados_equipamentos(store).inversores

\* A request whose catalog holds a panel and an inverter that the solver
\* passes over ended with the composer finding no arrangement.
C24_Witness ==
    /\ pc = "fim"
    /\ erro = Some(ErroArranjo)
    /\ composicoes # <<>>
    /\ \E k \in DOMAIN df_paineis : ~PainelValido(df_paineis[k])
    /\ \E k \in DOMAIN df_inversores : ~PotCaValida(df_inversores[k])


(***************************************************************************)
(* Catalog appends                                                         *)
(***************************************************************************)
\* Bound of the explored stores: rows per sheet before the appends.
MaxLinhasCatalogo == 1

\* The variables of a sizing request, which a catalog append leaves alone.
vars_dimensionamento ==
    <<consumo, local, pc, pedidos, respostas, kWp, ac_monthly_1kw, cargas,
      selecoes, potencia_pico_w, df_paineis, df_inversores, lst, comb, i,
      composicoes, resultados, df_ret, erro, anterior>>

\* A file that cannot be read and from which nothing can be loaded: absent,
\* emptied by the opening of a writer, or overwritten by two writers at once.
Ilegivel == [legivel |-> FALSE, paineis |-> <<>>, inversores |-> <<>>]

\* lines 216-224: the stores an append can find.  A readable file has both
\* sheets; a file that lacks a sheet makes read_excel raise (lines 218-219)
\* although its other sheet holds rows.
StoresDoCatalogo ==
    {st \in [legivel : BOOLEAN,
             paineis : SeqsAte({PainelP400, PainelP620}, MaxLinhasCatalogo),
             inversores : SeqsAte({InvINV5000, InvMIC1000}, MaxLinhasCatalogo)] :
        st.legivel \/ st.paineis = <<>> \/ st.inversores = <<>>}

\* The rows given to salvar_novo_painel and salvar_novo_inversor.  The form
\* of app.py (lines 170-179) also sends the module efficiency, a column the
\* stored panel sheets of this universe do not have.
PainelP600 == Painel("P600", "SolarC", 600, 52, 14)
PainelDoFormulario ==
    [modelo |-> "P450", fabricante |-> "SolarA",
     potencia_maxima_nominal_pmax |-> 450,
     tensao_circuito_aberto_voc |-> 41,
     corrente_curto_circuito_isc |-> 11,
     eficiencia_modulo |-> 21]
InvINV3000 == Inversor("INV3000", "InvC", 3000, 550, 90, 13, 2)

\* lines 238 and 257: one call of salvar_novo_painel or salvar_novo_inversor
\* before its first line
Escritor(tipo, novo) ==
    [tipo |-> tipo, novo |-> novo, pcw |-> "inicio",
     paineis |-> <<>>, inversores |-> <<>>,
     sobreposto |-> FALSE, ok |-> None]

Escritores ==
    {Escritor("painel", PainelP600), Escritor("painel", PainelDoFormulario),
     Escritor("inversor", InvINV3000)}

\* lines 240-242 and 259-260: the columns of the table, taken from the keys
\* of the new row when the table is empty
Colunas(df, novo) == IF df = <<>> THEN DOMAIN novo ELSE DOMAIN df[1]

\* lines 243 and 261: reindex(columns=..., fill_value=None) keeps the values
\* of the table's columns, drops the other keys and fills the missing ones
Reindex(linha, colunas) ==
    [c \in colunas |-> IF c \in DOMAIN linha THEN linha[c] ELSE None]

\* lines 240-244 and 259-262
AcrescentarLinha(df, novo) == Append(df, Reindex(novo, Colunas(df, novo)))

\* lines 240-253 and 259-268: the two tables handed to _salvar_excel_duas_abas;
\* an empty other table is replaced by an empty table with the standard columns
TabelasParaGravar(tipo, dados, novo) ==
    IF tipo = "painel"
    THEN [paineis |-> AcrescentarLinha(dados.paineis, novo),
          inversores |-> dados.inversores]
    ELSE [paineis |-> dados.paineis,
          inversores |-> AcrescentarLinha(dados.inversores, novo)]

InitCatalogo ==
    /\ consumo = Some(300)
    /\ local = LocalA
    /\ pc = "inicio"
    /\ pedidos = <<>>
    /\ respostas = <<>>
    /\ kWp = None
    /\ ac_monthly_1kw = None
    /\ cargas = 0
    /\ selecoes = 0
    /\ potencia_pico_w = None
    /\ df_paineis = <<>>
    /\ df_inversores = <<>>
    /\ lst = <<>>
    /\ comb = <<>>
    /\ i = 0
    /\ composicoes = <<>>
    /\ resultados = <<>>
    /\ df_ret = None
    /\ erro = None
    /\ anterior = None
    /\ store \in StoresDoCatalogo
    /\ store_inicial = store
    /\ escritores \in {<<a, b>> : a \in Escritores, b \in Escritores}
    /\ gravacoes = <<>>

\* lines 239-253 and 258-268: the load, which gives two empty tables when the
\* file cannot be read, and the tables built from it
CarregarParaAcrescentar(w) ==
    /\ escritores[w].pcw = "inicio"
    /\ LET e == escritores[w]
           t == TabelasParaGravar(e.tipo, carregar_dados_equipamentos(store), e.novo)
       IN escritores' = [escritores EXCEPT ![w] =
              [e EXCEPT !.pcw = "carregado",
                        !.paineis = t.paineis,
                        !.inversores = t.inversores]]
    /\ UNCHANGED <<store, store_inicial, gravacoes>>
    /\ UNCHANGED vars_dimensionamento

\* line 230: pd.ExcelWriter(file_path, engine="openpyxl").  The writer may
\* raise (line 234), open the file for writing at once, which empties it, or
\* leave the file until the workbook is saved: which of the last two depends
\* on the pandas version.
AbrirArquivo(w) ==
    /\ escritores[w].pcw = "carregado"
    /\ \E r \in {"falha", "esvaziado", "intacto"} :
        /\ escritores' = [escritores EXCEPT ![w] =
              IF r = "falha"
              THEN [@ EXCEPT !.pcw = "fim", !.ok = Some(FALSE)]
              ELSE [@ EXCEPT !.pcw = IF r = "esvaziado" THEN "aberto"
                                     ELSE "por_abrir"]]
        /\ store' = IF r = "esvaziado" THEN Ilegivel ELSE store
    /\ UNCHANGED <<store_inicial, gravacoes>>
    /\ UNCHANGED vars_dimensionamento

\* lines 231-235: both sheets are written and the workbook is saved when the
\* with block ends.  A writer that holds the file open since line 230 and
\* whose file was written by another writer in the meantime writes over that
\* content from the start of the file without emptying it: the file then
\* holds its workbook or cannot be read, and the function returns True in
\* both cases.  A save that raises returns False.
GravarArquivo(w) ==
    /\ escritores[w].pcw \in {"aberto", "por_abrir"}
    /\ LET e == escritores[w]
       IN \E r \in {"falha", "gravado"} \cup
                   (IF e.sobreposto THEN {"misturado"} ELSE {}) :
           /\ store' = CASE r = "gravado" ->
                              [legivel |-> TRUE, paineis |-> e.paineis,
                               inversores |-> e.inversores]
                         [] r = "misturado" -> Ilegivel
                         [] OTHER -> store
           /\ escritores' = [v \in DOMAIN escritores |->
                 IF v = w
                 THEN [e EXCEPT !.pcw = "fim", !.ok = Some(r # "falha")]
                 ELSE IF r # "falha" /\ escritores[v].pcw = "aberto"
                 THEN [escritores[v] EXCEPT !.sobreposto = TRUE]
                 ELSE escritores[v]]
           /\ gravacoes' = IF r # "falha" THEN Append(gravacoes, w)
                           ELSE gravacoes
    /\ UNCHANGED store_inicial
    /\ UNCHANGED vars_dimensionamento

NextCatalogo ==
    \/ \E w \in DOMAIN escritores : CarregarParaAcrescentar(w)
    \/ \E w \in DOMAIN escritores : AbrirArquivo(w)
    \/ \E w \in DOMAIN escritores : GravarArquivo(w)

SpecCatalogo == InitCatalogo /\ [][NextCatalogo]_vars

\* The row and the table of an append, and the table it must leave alone.
TabelaDoEscritor(st, e) == IF e.tipo = "painel" THEN st.paineis ELSE st.inversores
OutraTabela(st, e) == IF e.tipo = "painel" THEN st.inversores ELSE st.paineis

\* C25: after an append that ran alone reported success, the stored table
\* of its kind equals the previously stored table plus the new row and the
\* other stored table is unchanged, whatever the load found.
C25_SoAcrescentaUmaLinha ==
    \A w \in DOMAIN escritores :
        LET e == escritores[w]
        IN (/\ e.ok = Some(TRUE)
            /\ gravacoes = <<w>>
            /\ \A v \in DOMAIN escritores \ {w} : escritores[v].pcw = "inicio")
           => /\ TabelaDoEscritor(store, e)
                    = Append(TabelaDoEscritor(store_inicial, e), e.novo)
              /\ OutraTabela(store, e) = OutraTabela(store_inicial, e)


\* Every row of the table "antes" is in the table df, at its place.
Contem(df, antes) ==
    /\ Len(antes) <= Len(df)
    /\ \A k \in DOMAIN antes : df[k] = antes[k]

\* C26: when two appends on the same store have both reported success,
\* however their load and save steps interleaved, the store holds every row
\* it held before the two appends and the row of the append that saved last.
C26_UltimoEscritorVence ==
    (\A w \in DOMAIN escritores : escritores[w].ok = Some(TRUE))
    => LET u == escritores[gravacoes[Len(gravacoes)]]
       IN /\ Contem(store.paineis, store_inicial.paineis)
          /\ Contem(store.inversores, store_inicial.inversores)
          /\ \E k \in DOMAIN TabelaDoEscritor(store, u) :
                TabelaDoEscritor(store, u)[k] = u.novo


\* C27: every combination retained by the selector has the unit count N_min
\* of its own AC rating for the target handed to the selector; the DC power
\* it supports is at least the target; and every candidate probed for the
\* same model name and rating with more units deviates strictly more from
\* the target, so that N_min + 1 and N_min + 2 are never retained.
C27_SempreNMin ==
    selecoes >= 1 =>
        \A k \in DOMAIN comb :
            LET c == comb[k]
            IN /\ EhNMin(c.num_inversores, c.maxima_potencia_nominal_ca)
               /\ FLeq(AlvoEsperadoW, c.potencia_maxima_cc_suportada)
               /\ \A j \in DOMAIN lst :
                     (/\ lst[j].modelo = c.modelo
                      /\ lst[j].maxima_potencia_nominal_ca
                            = c.maxima_potencia_nominal_ca
                      /\ lst[j].num_inversores > c.num_inversores)
                     => FLt(c.diferenca_potencia_pico,
                            lst[j].diferenca_potencia_pico)

\* The selector retained several units of one model, which support more
\* than the target, and one unit of another model.
C27_Witness ==
    /\ selecoes >= 1
    /\ \E k, j \in DOMAIN comb :
          /\ comb[k].num_inversores > 1
          /\ FLt(AlvoEsperadoW, comb[k].potencia_maxima_cc_suportada)
          /\ comb[j].num_inversores = 1


\* 0.9 x target <= total <= 1.1 x target, for the target handed to
\* dimensionar_sistema and a whole number of watts.
DentroDaFaixaTotal(total) ==
    LET alvo == AlvoEsperadoW
    IN /\ 9 * alvo.n <= 10 * total * alvo.d
       /\ 10 * total * alvo.d <= 11 * alvo.n

\* C28: every row built by dimensionar_sistema, and every row of the table
\* returned by the request, has a total installed DC power equal to its
\* per-MPPT power x MPPT count x unit count and lying between 0.9 and 1.1
\* times the target peak power, for any unit count and MPPT count.
C28_TotalDentroDaFaixa ==
    /\ \A j \in DOMAIN resultados :
          /\ resultados[j].sistema_potencia_total_w
                = resultados[j].arranjo_potencia_total_mppt_w
                    * resultados[j].inversor_num_mppt
                    * resultados[j].inversor_num_unidades
          /\ DentroDaFaixaTotal(resultados[j].sistema_potencia_total_w)
    /\ df_ret # None =>
          \A j \in DOMAIN df_ret[1] :
             DentroDaFaixaTotal(df_ret[1][j].sistema_potencia_total_w)

\* A table was returned with a row for several units of an inverter of
\* several MPPTs and a row for several units of an inverter of one MPPT,
\* one total being under the target and the other over it.
C28_Witness ==
    /\ df_ret # None
    /\ \E j, k \in DOMAIN df_ret[1] :
          /\ df_ret[1][j].inversor_num_unidades > 1
          /\ df_ret[1][j].inversor_num_mppt > 1
          /\ df_ret[1][k].inversor_num_unidades > 1
          /\ df_ret[1][k].inversor_num_mppt = 1
          /\ FLt(Frac(df_ret[1][j].sistema_potencia_total_w, 1), AlvoEsperadoW)
          /\ FLt(AlvoEsperadoW, Frac(df_ret[1][k].sistema_potencia_total_w, 1))


\* C29: every row built by dimensionar_sistema, and every row of the table
\* returned by the request, has a total installed DC power of at most the
\* DC power its inverter combination supports, unit count x AC rating x 1.2.
C29_TotalSuportado ==
    /\ \A j \in DOMAIN resultados :
          5 * resultados[j].sistema_potencia_total_w
             <= 6 * resultados[j].inversor_num_unidades
                  * resultados[j].inversor_potencia_ca_nominal
    /\ df_ret # None =>
          \A j \in DOMAIN df_ret[1] :
             5 * df_ret[1][j].sistema_potencia_total_w
                <= 6 * df_ret[1][j].inversor_num_unidades
                     * df_ret[1][j].inversor_potencia_ca_nominal

=============================================================================
